---- MODULE Spec2Model ----
(***************************************************************************)
(* Model of src/core/transaction.rs: the Transaction sum type, the         *)
(* canonical transfer hash, signing (Transaction::transfer) and validation *)
(* (Transaction::is_valid).                                                *)
(*                                                                         *)
(* Strings are sequences of one-character strings, byte vectors are        *)
(* sequences of integers 0..255.  Hex, JSON and decimal formatting are     *)
(* computed character by character.  The cryptographic primitives of the   *)
(* ring crate are idealised: SHA-512 is collision free, an Ed25519         *)
(* signature verifies exactly when it was produced by the key pair that    *)
(* owns the public key, over the same message.  Key, identifier and        *)
(* signature lengths are scaled down (one byte keys and identifiers).      *)
(*                                                                         *)
(* The operations are functions of their arguments and share no state, so  *)
(* a behaviour is one use of each by a caller: it builds a transaction     *)
(* (transfer or reward), obtains one from outside (conversion of a wire    *)
(* transfer, or deserialisation) and validates them.  A panic ends the     *)
(* behaviour.                                                              *)
(***************************************************************************)
EXTENDS Integers, Sequences, FiniteSets, TLC

VARIABLES pc, panic, made, margs, message, recv, wire, target, valid, vmessage

vars == <<pc, panic, made, margs, message, recv, wire, target, valid, vmessage>>

(***************************************************************************)
(* Bounds of the model.                                                    *)
(***************************************************************************)
NumSeeds == 2
NumUuids == 2
MaxAmount == 2

MINER_REWARD == 1

(***************************************************************************)
(* Characters and bytes.                                                   *)
(***************************************************************************)
HexDigits == <<"0", "1", "2", "3", "4", "5", "6", "7",
               "8", "9", "a", "b", "c", "d", "e", "f">>

UpperHexDigits == <<"0", "1", "2", "3", "4", "5", "6", "7",
                    "8", "9", "A", "B", "C", "D", "E", "F">>

\* The printable ASCII characters the model uses, with their byte values.
AsciiCode ==
  [c \in {HexDigits[i] : i \in 1..16} \cup {UpperHexDigits[i] : i \in 1..16}
         \cup {"{", "}", "\"", ":", ",", "\\", "i", "n", "s", "r", "p", "t",
               "m", "o", "u", "z"} |->
     CASE c = "\"" -> 34
       [] c = "," -> 44
       [] c = ":" -> 58
       [] c = "\\" -> 92
       [] c = "{" -> 123
       [] c = "}" -> 125
       [] c = "i" -> 105
       [] c = "m" -> 109
       [] c = "n" -> 110
       [] c = "o" -> 111
       [] c = "p" -> 112
       [] c = "r" -> 114
       [] c = "s" -> 115
       [] c = "t" -> 116
       [] c = "u" -> 117
       [] c = "z" -> 122
       [] \E i \in 1..10 : HexDigits[i] = c ->
            47 + (CHOOSE i \in 1..10 : HexDigits[i] = c)
       [] \E i \in 11..16 : HexDigits[i] = c ->
            86 + (CHOOSE i \in 11..16 : HexDigits[i] = c)
       [] \E i \in 11..16 : UpperHexDigits[i] = c ->
            54 + (CHOOSE i \in 11..16 : UpperHexDigits[i] = c)]

\* str::as_ref::<[u8]>: the UTF-8 bytes of a string.
as_bytes(s) == [i \in 1..Len(s) |-> AsciiCode[s[i]]]

\* Value of each hex digit, of either case.
HexValue ==
  [c \in {HexDigits[i] : i \in 1..16} \cup {UpperHexDigits[i] : i \in 1..16} |->
     IF \E i \in 1..16 : HexDigits[i] = c
       THEN (CHOOSE i \in 1..16 : HexDigits[i] = c) - 1
       ELSE (CHOOSE i \in 11..16 : UpperHexDigits[i] = c) - 1]

\* Value of a hex digit of either case, -1 for any other character.
HexVal(c) == IF c \in DOMAIN HexValue THEN HexValue[c] ELSE -1

\* hex::ToHex::to_hex: two lowercase digits per byte.
to_hex(bytes) ==
  [i \in 1..(2 * Len(bytes)) |->
     IF i % 2 = 1 THEN HexDigits[(bytes[(i + 1) \div 2] \div 16) + 1]
                  ELSE HexDigits[(bytes[i \div 2] % 16) + 1]]

\* hex::FromHex::from_hex for Vec<u8>: Err on an odd length or on a character
\* that is no hex digit; digits of both cases are accepted.
from_hex(s) ==
  IF Len(s) % 2 = 0 /\ \A i \in 1..Len(s) : HexVal(s[i]) >= 0
    THEN [ok |-> TRUE,
          bytes |-> [i \in 1..(Len(s) \div 2) |->
                       16 * HexVal(s[2 * i - 1]) + HexVal(s[2 * i])]]
    ELSE [ok |-> FALSE, bytes |-> <<>>]

ToUpper(s) ==
  [i \in 1..Len(s) |->
     IF \E k \in 11..16 : HexDigits[k] = s[i]
       THEN UpperHexDigits[CHOOSE k \in 11..16 : HexDigits[k] = s[i]]
       ELSE s[i]]

IsLowerHex(s) ==
  /\ Len(s) % 2 = 0
  /\ \A i \in 1..Len(s) : \E k \in 1..16 : HexDigits[k] = s[i]

(***************************************************************************)
(* Identifiers (uuid crate).  An identifier is a byte vector; its textual  *)
(* form is the lowercase hex of its bytes.                                 *)
(***************************************************************************)
Uuids == {<<176 + i>> : i \in 1..NumUuids}

\* Uuid::parse_str: Err unless the string is hex digits (of either case) of
\* the length of an identifier.
parse_str(s) ==
  LET h == from_hex(s)
  IN IF h.ok /\ Len(h.bytes) = 1
       THEN [ok |-> TRUE, id |-> h.bytes]
       ELSE [ok |-> FALSE, id |-> <<>>]

\* impl Serialize for Uuid: the lowercase textual form.
uuid_to_string(id) == to_hex(id)

(***************************************************************************)
(* serde_json::to_string of a SignedTransfer.                              *)
(***************************************************************************)
RECURSIVE to_decimal(_)
to_decimal(n) ==
  IF n < 10 THEN <<HexDigits[n + 1]>>
            ELSE to_decimal(n \div 10) \o <<HexDigits[(n % 10) + 1]>>

\* JSON string escaping of the quotation mark and the reverse solidus.
RECURSIVE json_escape(_)
json_escape(s) ==
  IF s = <<>> THEN <<>>
  ELSE (IF Head(s) \in {"\"", "\\"} THEN <<"\\", Head(s)>> ELSE <<Head(s)>>)
         \o json_escape(Tail(s))

json_string(s) == <<"\"">> \o json_escape(s) \o <<"\"">>

\* The fields are written in the order of their declaration in SignedTransfer.
json_to_string(st) ==
  <<"{">> \o json_string(<<"i", "d">>) \o <<":">>
          \o json_string(uuid_to_string(st.id))
    \o <<",">> \o json_string(<<"s", "e", "n", "d", "e", "r">>) \o <<":">>
          \o json_string(st.sender)
    \o <<",">> \o json_string(<<"r", "e", "c", "i", "p", "i", "e", "n", "t">>)
          \o <<":">> \o json_string(st.recipient)
    \o <<",">> \o json_string(<<"a", "m", "o", "u", "n", "t">>) \o <<":">>
          \o to_decimal(st.amount)
    \o <<"}">>

(***************************************************************************)
(* ring: digest and signature, idealised.                                  *)
(***************************************************************************)
\* digest::digest(&SHA512, m): collision free, so a digest stands for exactly
\* one message; it is represented by the bytes of that message after the
\* identifier of the algorithm.
sha512_digest(m) == <<5, 1, 2>> \o m

Seeds == 1..NumSeeds

\* The public key of the key pair generated from a seed.
PublicKey(seed) == <<160 + seed>>

\* Ed25519KeyPair::sign: deterministic in the private seed and the message.
Ed25519Sign(seed, msg) == <<16 + seed>> \o msg

\* signature::verify(&ED25519, public_key, msg, sig): Ok exactly for the
\* signature that the owner of public_key makes over msg.
Ed25519Verify(public_key, msg, sig) ==
  \E seed \in Seeds : PublicKey(seed) = public_key /\ sig = Ed25519Sign(seed, msg)

\* A PKCS8 document of an Ed25519 key pair: header, seed, public key.
Pkcs8(seed) == <<48, seed>> \o PublicKey(seed)

\* Ed25519KeyPair::from_pkcs8: Err unless the document has the header, a seed
\* and the public key that belongs to the seed.
from_pkcs8(doc) ==
  IF Len(doc) = 3 /\ doc[1] = 48 /\ doc[2] \in Seeds
       /\ <<doc[3]>> = PublicKey(doc[2])
    THEN [ok |-> TRUE, seed |-> doc[2]]
    ELSE [ok |-> FALSE, seed |-> 0]

(***************************************************************************)
(* The transaction types.                                                  *)
(***************************************************************************)
NoTx == [kind |-> "None"]

Transfer(id, amount, sender, recipient, signature) ==
  [kind |-> "Transfer", id |-> id, amount |-> amount, sender |-> sender,
   recipient |-> recipient, signature |-> signature]

Reward(id, recipient, amount) ==
  [kind |-> "Reward", id |-> id, recipient |-> recipient, amount |-> amount]

SignedTransfer(id, sender, recipient, amount) ==
  [id |-> id, sender |-> sender, recipient |-> recipient, amount |-> amount]

\* Faulty variant of transfer_hash: the signature is hashed too.
transfer_hash_with_signature(transfer) ==
  sha512_digest(as_bytes(json_to_string(
    SignedTransfer(transfer.id, transfer.sender, transfer.recipient,
                   transfer.amount))
    \o json_string(transfer.signature)))

\* Transaction::transfer_hash
transfer_hash(transfer) ==
  LET signed_transfer == SignedTransfer(transfer.id, transfer.sender,
                                        transfer.recipient, transfer.amount)
  IN sha512_digest(as_bytes(json_to_string(signed_transfer)))

\* Faulty variant of is_valid_transfer: message and signature are exchanged
\* in the call of verify.
is_valid_transfer_swapped(transfer) ==
  LET public_key_bytes == from_hex(transfer.sender)
      signature_bytes == from_hex(transfer.signature)
  IN IF ~public_key_bytes.ok THEN "panic"
     ELSE IF ~signature_bytes.ok THEN "panic"
     ELSE IF Ed25519Verify(public_key_bytes.bytes, signature_bytes.bytes,
                           transfer_hash(transfer))
       THEN "true"
       ELSE "false"

\* Faulty variant of is_valid_transfer: the signature is verified against the
\* public key that made it, whatever the sender.
is_valid_transfer_any_key(transfer) ==
  LET public_key_bytes == from_hex(transfer.sender)
      signature_bytes == from_hex(transfer.signature)
  IN IF ~public_key_bytes.ok THEN "panic"
     ELSE IF ~signature_bytes.ok THEN "panic"
     ELSE IF \E s \in Seeds :
               Ed25519Verify(PublicKey(s), transfer_hash(transfer),
                             signature_bytes.bytes)
       THEN "true"
       ELSE "false"

\* Transaction::is_valid_transfer; "panic" is a failed unwrap.
is_valid_transfer(transfer) ==
  LET public_key_bytes == from_hex(transfer.sender)
      signature_bytes == from_hex(transfer.signature)
  IN IF ~public_key_bytes.ok THEN "panic"
     ELSE IF ~signature_bytes.ok THEN "panic"
     ELSE IF Ed25519Verify(public_key_bytes.bytes, transfer_hash(transfer),
                           signature_bytes.bytes)
       THEN "true"
       ELSE "false"

\* Faulty variant of is_valid: a reward of at least MINER_REWARD is valid.
is_valid_at_least(tx) ==
  IF tx.kind = "Transfer" THEN is_valid_transfer(tx)
  ELSE IF tx.amount >= MINER_REWARD THEN "true" ELSE "false"

\* Transaction::is_valid
is_valid(tx) ==
  IF tx.kind = "Transfer" THEN is_valid_transfer(tx)
  ELSE IF tx.amount = MINER_REWARD THEN "true" ELSE "false"

(***************************************************************************)
(* Inputs of the operations.                                               *)
(***************************************************************************)
NotHex == <<"z", "z">>

Amounts == 0..MaxAmount

\* Sender strings: the hex of each public key, an uppercase spelling of one,
\* and a string that is no hex.
Senders ==
  {to_hex(PublicKey(s)) : s \in Seeds}
    \cup {ToUpper(to_hex(PublicKey(1))), NotHex}

Recipients == {<<"b">>, <<"\"">>}

\* Private key bytes: the PKCS8 document of each key pair, an empty input and
\* a document whose public key does not belong to its seed.
PrivateKeys == {Pkcs8(s) : s \in Seeds} \cup {<<>>, <<48, 1, 0>>}

\* Identifier strings of the wire format.
WireIds ==
  {uuid_to_string(u) : u \in Uuids}
    \cup {ToUpper(uuid_to_string(<<177>>)), NotHex}

NoArgs == [op |-> "none"]

NoWire == [kind |-> "None"]

\* network::Transfer
NetworkTransfer(id, amount, sender, recipient, signature) ==
  [kind |-> "network::Transfer", id |-> id, amount |-> amount,
   sender |-> sender, recipient |-> recipient, signature |-> signature]

\* The wire transfers given to the conversion.  When the caller has built a
\* transfer: that transfer as sent, with at most one field replaced on the
\* way.  Otherwise: any transfer of the field sets, unsigned or with a
\* signature that is no hex.
WireTransfers ==
  IF made.kind = "Transfer"
    THEN LET sent == NetworkTransfer(uuid_to_string(made.id), made.amount,
                                     made.sender, made.recipient,
                                     made.signature)
         IN {[sent EXCEPT !.id = id] : id \in WireIds}
              \cup {[sent EXCEPT !.amount = amount] : amount \in Amounts}
              \cup {[sent EXCEPT !.sender = sender] : sender \in Senders}
              \cup {[sent EXCEPT !.recipient = recipient] :
                      recipient \in Recipients}
              \cup {[sent EXCEPT !.signature = signature] :
                      signature \in {<<>>, NotHex}}
    ELSE {NetworkTransfer(id, amount, sender, recipient, signature) :
            id \in WireIds, amount \in Amounts, sender \in Senders,
            recipient \in Recipients, signature \in {<<>>, NotHex}}

(***************************************************************************)
(* State.                                                                  *)
(*   pc       position of the caller: "idle" between calls, "hash", "key", *)
(*            "sign" inside Transaction::transfer, "aborted" after a panic *)
(*   panic    the message of the panic that aborted the caller             *)
(*   made     the transfer being built by Transaction::transfer, then the  *)
(*            transaction returned by it or by Transaction::reward         *)
(*   margs    the arguments of the call that built made                    *)
(*   message  the local message of Transaction::transfer                   *)
(*   recv     the transaction obtained from outside                        *)
(*   wire     the network::Transfer given to the conversion                *)
(*   target   which transaction is_valid was called on last                *)
(*   valid    what that call returned                                      *)
(*   vmessage the local message of Transaction::is_valid_transfer          *)
(***************************************************************************)
Init ==
  /\ pc = "idle"
  /\ panic = "none"
  /\ made = NoTx
  /\ margs = NoArgs
  /\ message = <<>>
  /\ recv = NoTx
  /\ wire = NoWire
  /\ target = "none"
  /\ valid = "none"
  /\ vmessage = <<>>

\* Faulty variant of TransferNew: the signature field starts as a copy of the
\* sender.
TransferNewSigned(sender, recipient, amount, private_key) ==
  /\ pc = "idle"
  /\ made = NoTx /\ recv = NoTx /\ wire = NoWire /\ target = "none"
  /\ \E id \in Uuids :
       made' = Transfer(id, amount, sender, recipient, sender)
  /\ margs' = [op |-> "transfer", sender |-> sender, recipient |-> recipient,
               amount |-> amount, private_key |-> private_key]
  /\ pc' = "hash"
  /\ UNCHANGED <<panic, message, recv, wire, target, valid, vmessage>>

\* Transaction::transfer, lines 61-67: the transfer is created unsigned.
TransferNew(sender, recipient, amount, private_key) ==
  /\ pc = "idle"
  /\ made = NoTx /\ recv = NoTx /\ wire = NoWire /\ target = "none"
  /\ \E id \in Uuids :
       made' = Transfer(id, amount, sender, recipient, <<>>)
  /\ margs' = [op |-> "transfer", sender |-> sender, recipient |-> recipient,
               amount |-> amount, private_key |-> private_key]
  /\ pc' = "hash"
  /\ UNCHANGED <<panic, message, recv, wire, target, valid, vmessage>>

\* Transaction::transfer, line 69.
TransferDigest ==
  /\ pc = "hash"
  /\ message' = transfer_hash(made)
  /\ pc' = "key"
  /\ UNCHANGED <<panic, made, margs, recv, wire, target, valid, vmessage>>

\* Transaction::transfer, lines 70-72: expect panics on a key that does not
\* parse.
TransferKeyPair ==
  /\ pc = "key"
  /\ IF from_pkcs8(margs.private_key).ok
       THEN pc' = "sign" /\ UNCHANGED panic
       ELSE pc' = "aborted" /\ panic' = "Cannot create private/public key pair"
  /\ UNCHANGED <<made, margs, message, recv, wire, target, valid, vmessage>>

\* Transaction::transfer, lines 73-76: sign, store the signature, return.
TransferSign ==
  /\ pc = "sign"
  /\ LET key_pair == from_pkcs8(margs.private_key)
     IN made' = [made EXCEPT
                   !.signature = to_hex(Ed25519Sign(key_pair.seed, message))]
  /\ pc' = "idle"
  /\ UNCHANGED <<panic, margs, message, recv, wire, target, valid, vmessage>>

\* Faulty variant of reward: the amount is zero.
reward_zero(recipient) ==
  /\ pc = "idle"
  /\ made = NoTx /\ recv = NoTx /\ wire = NoWire /\ target = "none"
  /\ \E id \in Uuids : made' = Reward(id, recipient, 0)
  /\ margs' = [op |-> "reward", recipient |-> recipient]
  /\ UNCHANGED <<pc, panic, message, recv, wire, target, valid, vmessage>>

\* Transaction::reward
reward(recipient) ==
  /\ pc = "idle"
  /\ made = NoTx /\ recv = NoTx /\ wire = NoWire /\ target = "none"
  /\ \E id \in Uuids : made' = Reward(id, recipient, MINER_REWARD)
  /\ margs' = [op |-> "reward", recipient |-> recipient]
  /\ UNCHANGED <<pc, panic, message, recv, wire, target, valid, vmessage>>

\* impl From<network::Transfer> for Transfer: expect panics on an id that
\* does not parse.
from(transfer) ==
  /\ pc = "idle"
  /\ wire = NoWire /\ recv = NoTx
  /\ wire' = transfer
  /\ LET id == parse_str(transfer.id)
     IN IF id.ok
          THEN /\ recv' = Transfer(id.id, transfer.amount, transfer.sender,
                                   transfer.recipient, transfer.signature)
               /\ UNCHANGED <<pc, panic>>
          ELSE /\ pc' = "aborted"
               /\ panic' = "Incorrect transfer UUID"
               /\ UNCHANGED recv
  /\ UNCHANGED <<made, margs, message, target, valid, vmessage>>

\* #[derive(Deserialize)] for Reward: any field values.
deserialize_reward(id, recipient, amount) ==
  /\ pc = "idle"
  /\ wire = NoWire /\ recv = NoTx
  /\ recv' = Reward(id, recipient, amount)
  /\ UNCHANGED <<pc, panic, made, margs, message, wire, target, valid,
                 vmessage>>

\* A call of Transaction::is_valid on made or on recv; a failed unwrap aborts
\* the caller.
IsValidCall(which) ==
  /\ pc = "idle"
  /\ LET tx == IF which = "made" THEN made ELSE recv
         result == is_valid(tx)
     IN /\ tx.kind # "None"
        /\ valid' = result
        /\ vmessage' = IF tx.kind = "Transfer" /\ result # "panic"
                         THEN transfer_hash(tx)
                         ELSE <<>>
        /\ IF result = "panic"
             THEN /\ pc' = "aborted"
                  /\ panic' = "called Result::unwrap() on an Err value"
             ELSE UNCHANGED <<pc, panic>>
  /\ target' = which
  /\ UNCHANGED <<made, margs, message, recv, wire>>

Next ==
  \/ \E sender \in Senders, recipient \in Recipients, amount \in Amounts,
        private_key \in PrivateKeys :
       TransferNew(sender, recipient, amount, private_key)
  \/ TransferDigest
  \/ TransferKeyPair
  \/ TransferSign
  \/ \E recipient \in Recipients : reward(recipient)
  \/ \E transfer \in WireTransfers : from(transfer)
  \/ \E id \in Uuids, recipient \in Recipients, amount \in Amounts :
       deserialize_reward(id, recipient, amount)
  \/ \E which \in {"made", "recv"} : IsValidCall(which)

Spec == Init /\ [][Next]_vars

(***************************************************************************)
(* Properties.                                                             *)
(***************************************************************************)
KeyPanic == "Cannot create private/public key pair"

UuidPanic == "Incorrect transfer UUID"

UnwrapPanic == "called Result::unwrap() on an Err value"

\* Transaction::transfer was called and has returned made.
TransferReturned ==
  /\ margs.op = "transfer"
  /\ pc \notin {"hash", "key", "sign"}
  /\ panic # KeyPanic

\* The key pair parsed from the private key given to Transaction::transfer.
SigningKey == from_pkcs8(margs.private_key)

\* The transaction is_valid was called on last.
Checked == IF target = "made" THEN made ELSE recv

SameSignedFields(a, b) ==
  /\ a.id = b.id
  /\ a.sender = b.sender
  /\ a.recipient = b.recipient
  /\ a.amount = b.amount

\* Exactly one of id, sender, recipient, amount differs.
OneFieldChanged(a, b) ==
  Cardinality({f \in {"id", "sender", "recipient", "amount"} : a[f] # b[f]}) = 1

\* C1: a transfer returned by Transaction::transfer for a well-formed key
\* pair, with the lowercase hex of that pair's public key as sender, is found
\* valid by is_valid.
C1_SignThenValidate ==
  (/\ TransferReturned
   /\ margs.sender = to_hex(PublicKey(SigningKey.seed))
   /\ target = "made")
    => valid = "true"

C1_Witness ==
  /\ TransferReturned
  /\ margs.sender = to_hex(PublicKey(SigningKey.seed))
  /\ target = "made"
  /\ valid = "true"

\* C2: when a valid signed transfer has exactly one of id, sender, recipient,
\* amount changed and its signature kept, is_valid returns false on the
\* changed transfer.
C2_TamperDetection ==
  (/\ TransferReturned
   /\ is_valid_transfer(made) = "true"
   /\ recv.kind = "Transfer"
   /\ recv.signature = made.signature
   /\ OneFieldChanged(made, recv)
   /\ target = "recv")
    => valid = "false"

\* C3: is_valid returns true or false on every transaction and never panics;
\* on a transfer whose sender or signature is no hex it returns false.
C3_IsValidTotal ==
  target # "none" =>
    /\ panic # UnwrapPanic
    /\ valid \in {"true", "false"}
    /\ (/\ Checked.kind = "Transfer"
        /\ ~from_hex(Checked.sender).ok \/ ~from_hex(Checked.signature).ok)
         => valid = "false"

\* C4: the conversion of a wire transfer whose id does not parse does not
\* abort the caller and produces no transfer.
C4_InvalidIdentifierReturned ==
  (wire # NoWire /\ ~parse_str(wire.id).ok) =>
    /\ panic # UuidPanic
    /\ pc # "aborted"
    /\ recv = NoTx

\* C5: Transaction::transfer with a private key that does not parse does not
\* abort the caller and returns no transaction; with a key that parses it
\* returns a signed transfer.
C5_InvalidKeyReturned ==
  (margs.op = "transfer" /\ pc \notin {"hash", "key", "sign"}) =>
    /\ panic # KeyPanic
    /\ SigningKey.ok => made.signature # <<>>
    /\ ~SigningKey.ok => made.signature = <<>>

\* C6: on a reward, whatever its id and recipient, is_valid returns true if
\* its amount is MINER_REWARD and false otherwise.
C6_RewardValidity ==
  (target # "none" /\ Checked.kind = "Reward") =>
    /\ valid \in {"true", "false"}
    /\ valid = "true" <=> Checked.amount = MINER_REWARD

C6_Witness ==
  /\ target = "recv"
  /\ recv.kind = "Reward"
  /\ recv.amount # MINER_REWARD
  /\ valid = "false"

\* C7: the digest computed when a transfer is signed (signature empty) and the
\* digest computed when a transfer with the same id, sender, recipient and
\* amount is verified are the same, whatever signature that transfer carries.
C7_DigestIgnoresSignature ==
  (/\ made.kind = "Transfer"
   /\ message # <<>>
   /\ target # "none"
   /\ Checked.kind = "Transfer"
   /\ valid # "panic"
   /\ SameSignedFields(made, Checked))
    => vmessage = message

C7_Witness ==
  /\ made.kind = "Transfer"
  /\ message # <<>>
  /\ target = "recv"
  /\ recv.kind = "Transfer"
  /\ SameSignedFields(made, recv)
  /\ recv.signature # made.signature
  /\ made.signature # <<>>
  /\ vmessage = message

\* C8: inside Transaction::transfer the signature is empty until the signing
\* step; the only change ever made to a transfer is that step's write of a
\* non-empty lowercase hex signature into the empty field; a call of is_valid
\* changes no transaction.
C8_SingleSignatureWrite ==
  /\ [](pc \in {"hash", "key", "sign"} =>
          made.kind = "Transfer" /\ made.signature = <<>>)
  /\ [][(made.kind = "Transfer" /\ made' # made) =>
          /\ pc = "sign" /\ pc' = "idle"
          /\ made.signature = <<>>
          /\ made'.signature # <<>>
          /\ IsLowerHex(made'.signature)
          /\ made' = [made EXCEPT !.signature = made'.signature]]_vars
  /\ [][(target' # target \/ valid' # valid \/ vmessage' # vmessage) =>
          made' = made /\ recv' = recv]_vars

C8_Witness ==
  /\ TransferReturned
  /\ made.signature # <<>>
  /\ target = "made"
  /\ valid = "true"

\* C9: the transaction returned by Transaction::reward is a reward of amount
\* MINER_REWARD to the given recipient, and is_valid returns true on it.
C9_RewardConstruction ==
  margs.op = "reward" =>
    /\ made.kind = "Reward"
    /\ made.amount = MINER_REWARD
    /\ made.recipient = margs.recipient
    /\ target = "made" => valid = "true"

C9_Witness ==
  /\ margs.op = "reward"
  /\ target = "made"
  /\ valid = "true"

\* The sender given to Transaction::transfer is hex of the public key of a
\* key pair other than the signing one.
SenderIsOtherKey ==
  /\ from_hex(margs.sender).ok
  /\ \E s \in Seeds : from_hex(margs.sender).bytes = PublicKey(s)
  /\ from_hex(margs.sender).bytes # PublicKey(SigningKey.seed)

\* C10 as stated: Transaction::transfer returns a signed transfer also when
\* the sender is hex of another public key, and is_valid returns false on it;
\* a transfer it returns is valid only if its sender is the lowercase hex
\* encoding (to_hex) of the signing key's public key.
C10_SenderNotChecked_Original ==
  /\ (TransferReturned /\ SenderIsOtherKey) =>
       /\ made.signature # <<>>
       /\ target = "made" => valid = "false"
  /\ (TransferReturned /\ target = "made" /\ valid = "true") =>
       margs.sender = to_hex(PublicKey(SigningKey.seed))

\* C10 as amended: the same, but a transfer returned by Transaction::transfer
\* is valid only if its sender decodes from hex, in either letter case, to
\* the signing key's public key.
C10_SenderNotChecked ==
  /\ (TransferReturned /\ SenderIsOtherKey) =>
       /\ made.signature # <<>>
       /\ target = "made" => valid = "false"
  /\ (TransferReturned /\ target = "made" /\ valid = "true") =>
       /\ from_hex(margs.sender).ok
       /\ from_hex(margs.sender).bytes = PublicKey(SigningKey.seed)

C10_Witness ==
  /\ TransferReturned
  /\ SenderIsOtherKey
  /\ made.signature # <<>>
  /\ target = "made"
  /\ valid = "false"

====
